---------------------------- MODULE Spec2Model ----------------------------
(***************************************************************************)
(* A model of the BND4 archive reader (src/src/archive/bnd4.rs), the DCX   *)
(* container reader (src/src/container/dcx.rs) and the byte-reading        *)
(* helpers they use (src/src/io.rs).                                       *)
(*                                                                         *)
(* The input is a byte stream.  Init builds it from a small description    *)
(* (desc) with the serializer of the on-disk layout below; the operations  *)
(* then parse the bytes exactly as the Rust code does: one byte at a time, *)
(* in the selected integer byte order, with the flag bit-order correction. *)
(*                                                                         *)
(* Integers: TLC's integers are 32 bit.  Multi-byte unsigned reads are     *)
(* exact below 2^24 and collapse to Huge above it; the streams Init builds *)
(* only hold unsigned values below 2^24.  i32 reads are exact.             *)
(***************************************************************************)
EXTENDS Integers, Sequences, FiniteSets, TLC

VARIABLES
    desc,          \* the description the input stream was built from
    stream,        \* the bytes of the input (the Cursor's / File's content)
    pos,           \* the stream cursor (Seek position of `reader`)
    status,        \* "Start" | "Parsed" | "Failed" | "Container" | "Aborted"
    archive_info,  \* Bnd4Archive.archive_info
    entries,       \* Bnd4Archive.entries
    is_big_endian, \* Bnd4Archive.is_big_endian
    cur,           \* the live Bnd4File / DcxReader, if any
    last           \* the last call and what it returned

vars == <<desc, stream, pos, status, archive_info, entries, is_big_endian, cur, last>>

---------------------------------------------------------------------------
\* Bounds of the model.

\* largest number of entry records in a built archive
MaxFiles == 2
\* largest stored payload length of an uncompressed entry / plain length of
\* a compressed one
MaxPayload == 2
\* largest caller buffer handed to read()
MaxBuf == 2

---------------------------------------------------------------------------
\* Small helpers.

Min(a, b) == IF a < b THEN a ELSE b

\* F applied to the value of x, x evaluated once
Let(x, F(_)) == CHOOSE out \in {F(v) : v \in {x}} : TRUE

Pow2(i) == 2 ^ i

\* bit i (0 = least significant) of the byte b
Bit(b, i) == (b \div Pow2(i)) % 2

\* u8::reverse_bits
reverse_bits(b) ==
    Bit(b, 0) * 128 + Bit(b, 1) * 64 + Bit(b, 2) * 32 + Bit(b, 3) * 16
  + Bit(b, 4) * 8 + Bit(b, 5) * 4 + Bit(b, 6) * 2 + Bit(b, 7)

\* every bit set in b is set in mask
OnlyBits(b, mask) == \A i \in 0..7 : Bit(b, i) = 1 => Bit(mask, i) = 1

\* flags.contains(f) for a one-bit f, flags.intersects(mask)
Contains(flags, f) == \E i \in 0..7 : Bit(f, i) = 1 /\ Bit(flags, i) = 1

RECURSIVE Concat(_)
\* the concatenation of a sequence of sequences
Concat(ss) == IF ss = <<>> THEN <<>> ELSE Head(ss) \o Concat(Tail(ss))

RECURSIVE SumSeq(_)
SumSeq(s) == IF s = <<>> THEN 0 ELSE Head(s) + SumSeq(Tail(s))

Reverse(s) == [i \in 1..Len(s) |-> s[Len(s) + 1 - i]]

---------------------------------------------------------------------------
\* Flag values (bitflags! blocks).

COMPRESSED == 32
HAS_ID     == 2
HAS_NAME   == 4
HAS_NAME_2 == 8
UNK        == 64

BIG_ENDIAN           == 1
SUPPORTS_IDS         == 2
SUPPORTS_PATHS       == 4
SUPPORTS_NAMES       == 8
LONG_OFFSETS         == 16
SUPPORTS_COMPRESSION == 32

\* Bnd4EntryFlags::all().bits() and Bnd4Flags::all().bits()
Bnd4EntryFlags_all == COMPRESSED + HAS_ID + HAS_NAME + HAS_NAME_2 + UNK
Bnd4Flags_all == BIG_ENDIAN + SUPPORTS_IDS + SUPPORTS_PATHS + SUPPORTS_NAMES
                 + LONG_OFFSETS + SUPPORTS_COMPRESSION

\* an entry flag byte accepted whatever its bits (from_bits_unchecked)
Bnd4EntryFlags_from_bits_unchecked(b) == TRUE

\* bitflags from_bits: None (FALSE) when a bit outside the defined set is set
Bnd4EntryFlags_from_bits_ok(b) == OnlyBits(b, Bnd4EntryFlags_all)
Bnd4Flags_from_bits_ok(b) == OnlyBits(b, Bnd4Flags_all)

has_long_offsets(format) == Contains(format, LONG_OFFSETS)
supports_filenames(format) == Contains(format, SUPPORTS_PATHS + SUPPORTS_NAMES)
supports_ids(format) == Contains(format, SUPPORTS_IDS)

---------------------------------------------------------------------------
\* Errors.  kind "Ok" is success; "Panic" is a process abort (panic!,
\* assert_eq!, unimplemented!, unwrap on None), which is no error value.

NoErr == [kind |-> "Ok", msg |-> ""]
Eof == [kind |-> "UnexpectedEof", msg |-> "failed to fill whole buffer"]
invalid_data(message) == [kind |-> "InvalidData", msg |-> message]
Panic(message) == [kind |-> "Panic", msg |-> message]
Unexpected == invalid_data("Unexpected data")

IsOk(r) == r.err.kind = "Ok"

\* the first error of a sequence of results, in the order the reads happen
FirstErr(rs) ==
    Let(rs, LAMBDA v :
        IF \A i \in 1..Len(v) : v[i].kind = "Ok" THEN NoErr
        ELSE v[CHOOSE i \in 1..Len(v) :
                   v[i].kind # "Ok" /\ \A j \in 1..(i - 1) : v[j].kind = "Ok"])

---------------------------------------------------------------------------
\* Fixed-width integers (byteorder).

\* the value at or above which an unsigned read collapses
Huge == 2 ^ 24

\* the unsigned value of the bytes bs read in the given byte order
Unsigned(bs, big) ==
    Let(IF big THEN Reverse(bs) ELSE bs, LAMBDA le :
        IF \E i \in 4..Len(le) : le[i] # 0 THEN Huge
        ELSE SumSeq([i \in 1..Min(Len(le), 3) |-> le[i] * (256 ^ (i - 1))]))

\* the signed 32-bit value of 4 bytes
Signed32(bs, big) ==
    Let(IF big THEN bs ELSE Reverse(bs), LAMBDA m :
        (IF m[1] >= 128 THEN m[1] - 256 ELSE m[1]) * 16777216
        + m[2] * 65536 + m[3] * 256 + m[4])

\* the n bytes of the two's complement value v (which fits 32 bits), in the
\* given byte order; bytes above the fourth repeat the sign
ToBytes(v, n, big) ==
    Let([i \in 1..n |-> IF i <= 4 THEN (v \div (256 ^ (i - 1))) % 256
                        ELSE IF v < 0 THEN 255 ELSE 0],
        LAMBDA le : IF big THEN Reverse(le) ELSE le)

---------------------------------------------------------------------------
\* Reads on the byte sequence s at cursor p (0-based).  A result is
\* [err, val, pos]; pos is the cursor after a successful read.  Every
\* successful read advances the cursor by the width of what it read, so a
\* run of reads of fixed widths is written with the cursor of each read
\* given as the start plus the widths before it.

\* the bytes s[p .. p+n-1]
Slice(s, p, n) == SubSeq(s, p + 1, p + n)

\* the bytes a reader at p still has (none when p is at or past the end)
Remaining(s, p) == IF p < Len(s) THEN Len(s) - p ELSE 0

read_u8(s, p) ==
    IF p < Len(s) THEN [err |-> NoErr, val |-> s[p + 1], pos |-> p + 1]
    ELSE [err |-> Eof, val |-> 0, pos |-> p]

\* read_exact of n raw bytes
read_exact(s, p, n) ==
    IF Remaining(s, p) >= n THEN [err |-> NoErr, val |-> Slice(s, p, n), pos |-> p + n]
    ELSE [err |-> Eof, val |-> <<>>, pos |-> p]

\* read_u32::<Order> / read_u64::<Order>: n bytes, unsigned
read_uint(s, p, n, big) ==
    IF Remaining(s, p) >= n
    THEN [err |-> NoErr, val |-> Unsigned(Slice(s, p, n), big), pos |-> p + n]
    ELSE [err |-> Eof, val |-> 0, pos |-> p]

read_u32(s, p, big) == read_uint(s, p, 4, big)
read_u64(s, p, big) == read_uint(s, p, 8, big)

read_i32(s, p, big) ==
    IF Remaining(s, p) >= 4
    THEN [err |-> NoErr, val |-> Signed32(Slice(s, p, 4), big), pos |-> p + 4]
    ELSE [err |-> Eof, val |-> 0, pos |-> p]

\* expect_num: the read's error, or InvalidData when the value differs
expect_num(read, value) ==
    Let(read, LAMBDA r :
        IF ~IsOk(r) THEN r
        ELSE IF r.val = value THEN r
        ELSE [r EXCEPT !.err = Unexpected])

expect_u8(s, p, value) == expect_num(read_u8(s, p), value)
expect_i32(s, p, big, value) == expect_num(read_i32(s, p, big), value)

\* format!("Unexpected data at position {}", pos)
UnexpectedAt == [k \in 0..3 |-> <<"Unexpected data at position 0",
                                  "Unexpected data at position 1",
                                  "Unexpected data at position 2",
                                  "Unexpected data at position 3">>[k + 1]]

RECURSIVE expect_from(_, _, _, _)
\* ReadExt::expect from the byte at index k (0-based) of bytes on
expect_from(s, p, bytes, k) ==
    IF k >= Len(bytes) THEN [err |-> NoErr, val |-> TRUE, pos |-> p]
    ELSE IF p >= Len(s) THEN [err |-> Eof, val |-> FALSE, pos |-> p]
    ELSE IF s[p + 1] # bytes[k + 1]
    THEN [err |-> invalid_data(UnexpectedAt[k]), val |-> FALSE, pos |-> p + 1]
    ELSE expect_from(s, p + 1, bytes, k + 1)

expect(s, p, bytes) == expect_from(s, p, bytes, 0)

read_bool(s, p) ==
    IF p < Len(s) THEN [err |-> NoErr, val |-> (s[p + 1] = 1), pos |-> p + 1]
    ELSE [err |-> Eof, val |-> FALSE, pos |-> p]

---------------------------------------------------------------------------
\* Text.  A decoded string is a sequence of code points.  Replacement is
\* U+FFFD; NotModelled stands for a code point the model has no table for
\* (double-byte Shift_JIS, UTF-8 after a UTF-8 byte order mark).

Replacement == 65533
NotModelled == -1

\* one UTF-16 code unit from two bytes
CodeUnit(b1, b2, big) == IF big THEN b1 * 256 + b2 ELSE b2 * 256 + b1

IsHighSurrogate(u) == u >= 55296 /\ u <= 56319
IsLowSurrogate(u) == u >= 56320 /\ u <= 57343

\* the code unit of data at byte index i (0-based), -1 when it is not whole
UnitAt(data, i, big) ==
    IF i + 2 <= Len(data) THEN CodeUnit(data[i + 1], data[i + 2], big) ELSE -1

RECURSIVE Utf16Units(_, _, _)
\* UTF-16 decoding of data from byte index i (0-based) on, without byte
\* order mark handling
Utf16Units(data, i, big) ==
    IF i >= Len(data) THEN <<>>
    ELSE IF i + 1 = Len(data) THEN <<Replacement>>
    ELSE IF IsHighSurrogate(UnitAt(data, i, big))
            /\ IsLowSurrogate(UnitAt(data, i + 2, big))
    THEN <<65536 + (UnitAt(data, i, big) - 55296) * 1024
                 + (UnitAt(data, i + 2, big) - 56320)>>
         \o Utf16Units(data, i + 4, big)
    ELSE IF IsHighSurrogate(UnitAt(data, i, big))
            \/ IsLowSurrogate(UnitAt(data, i, big))
    THEN <<Replacement>> \o Utf16Units(data, i + 2, big)
    ELSE <<UnitAt(data, i, big)>> \o Utf16Units(data, i + 2, big)

IsShiftJisLead(b) == (b >= 129 /\ b <= 159) \/ (b >= 224 /\ b <= 252)

RECURSIVE ShiftJisUnits(_, _)
\* Shift_JIS decoding of data from byte index i (0-based) on, without byte
\* order mark handling
ShiftJisUnits(data, i) ==
    IF i >= Len(data) THEN <<>>
    ELSE IF data[i + 1] <= 128 THEN <<data[i + 1]>> \o ShiftJisUnits(data, i + 1)
    ELSE IF data[i + 1] >= 161 /\ data[i + 1] <= 223
    THEN <<65377 + (data[i + 1] - 161)>> \o ShiftJisUnits(data, i + 1)
    ELSE IF IsShiftJisLead(data[i + 1])
    THEN IF i + 1 >= Len(data) THEN <<Replacement>>
         ELSE <<NotModelled>> \o ShiftJisUnits(data, i + 2)
    ELSE <<Replacement>> \o ShiftJisUnits(data, i + 1)

HasPrefix(data, pre) == Len(data) >= Len(pre) /\ SubSeq(data, 1, Len(pre)) = pre

\* Encoding::decode: a byte order mark at the start selects the encoding
\* and is removed; otherwise the encoding asked for is used.
\* enc is "sjis", "utf16le" or "utf16be".
Decode(bytes, enc) ==
    Let(bytes, LAMBDA data :
        IF HasPrefix(data, <<239, 187, 191>>) THEN <<NotModelled>>
        ELSE IF HasPrefix(data, <<255, 254>>) THEN Utf16Units(data, 2, FALSE)
        ELSE IF HasPrefix(data, <<254, 255>>) THEN Utf16Units(data, 2, TRUE)
        ELSE IF enc = "sjis" THEN ShiftJisUnits(data, 0)
        ELSE Utf16Units(data, 0, enc = "utf16be"))

\* the cursor a scan from p is left at when the input ends under it
EofCursor(s, p) == IF p < Len(s) THEN Len(s) ELSE p

RECURSIVE cstr_end(_, _)
\* the loop of read_cstr from cursor p: the cursor of the first 0 byte, or
\* -1 when the input ends before one
cstr_end(s, p) ==
    IF p >= Len(s) THEN -1
    ELSE IF s[p + 1] = 0 THEN p
    ELSE cstr_end(s, p + 1)

read_cstr(s, p) ==
    Let(cstr_end(s, p), LAMBDA q :
        IF q < 0 THEN [err |-> Eof, val |-> <<>>, pos |-> EofCursor(s, p)]
        ELSE [err |-> NoErr, val |-> Decode(Slice(s, p, q - p), "sjis"), pos |-> q + 1])

RECURSIVE utf16_end(_, _)
\* the loop of read_utf16 from cursor p: the cursor of the first (0, 0)
\* pair read as a pair, or -1 when the input ends before one
utf16_end(s, p) ==
    IF p + 2 > Len(s) THEN -1
    ELSE IF s[p + 1] = 0 /\ s[p + 2] = 0 THEN p
    ELSE utf16_end(s, p + 2)

read_utf16(s, p, big) ==
    Let(utf16_end(s, p), LAMBDA q :
        IF q < 0 THEN [err |-> Eof, val |-> <<>>, pos |-> EofCursor(s, p)]
        ELSE [err |-> NoErr,
              val |-> Decode(Slice(s, p, q - p), IF big THEN "utf16be" ELSE "utf16le"),
              pos |-> q + 2])

\* an `at` that forgets to seek back: the cursor stays where the consumer
\* left it
restore_skipped(p, result) == result

\* the end of `at`: seek back to the remembered cursor p and hand on the
\* consumer's result
restore(p, result) == [result EXCEPT !.pos = p]

\* the closure file() hands to `at`, run on the stream at p: it captures
\* is_unicode and is_big_endian_str
name_consumer(closure, s, p) ==
    IF closure.is_unicode THEN read_utf16(s, p, closure.is_big_endian_str)
    ELSE read_cstr(s, p)

\* SeekableReadExt::at: remember the cursor, seek to position, run the
\* consumer there, seek back, return the consumer's result.  Seeking to an
\* absolute position of a Cursor or File always succeeds.  The result
\* carries the restored cursor.
at(s, p, position, consumer) ==
    Let(name_consumer(consumer, s, position), LAMBDA result : restore(p, result))

---------------------------------------------------------------------------
\* The zlib stream behind ZlibDecoder (flate2), for streams of stored
\* deflate blocks: a 2-byte header, blocks of
\* (header byte, LEN, NLEN, LEN raw bytes), a big-endian Adler-32.
\* Huffman-coded blocks are outside the model (status "NotModelled").

AdlerMod == 65536 - 15

\* the sum a of Adler-32 over the first k bytes of data
AdlerA(data, k) == (1 + SumSeq(SubSeq(data, 1, k))) % AdlerMod

\* the sum b of Adler-32 over data: the sum of the a's
AdlerB(data) == SumSeq([k \in 1..Len(data) |-> AdlerA(data, k)]) % AdlerMod

Adler32Bytes(data) ==
    <<AdlerB(data) \div 256, AdlerB(data) % 256,
      AdlerA(data, Len(data)) \div 256, AdlerA(data, Len(data)) % 256>>

\* CMF/FLG: method 8, window <= 32K, check bits, no preset dictionary
ZlibHeaderOk(cmf, flg) ==
    /\ cmf % 16 = 8
    /\ cmf \div 16 <= 7
    /\ (cmf * 256 + flg) % 31 = 0
    /\ Bit(flg, 5) = 0

\* LEN of the stored block whose header byte is at index i (0-based) of z
BlockLen(z, i) == z[i + 2] + 256 * z[i + 3]
BlockNLen(z, i) == z[i + 4] + 256 * z[i + 5]
BlockType(z, i) == Bit(z[i + 1], 1) + 2 * Bit(z[i + 1], 2)

RECURSIVE InflateBlocks(_, _, _)
\* decode the blocks of z from byte index i (0-based) on, after out.
\* status: "End" (stream complete), "Truncated" (input ran out),
\* "Corrupt", "NotModelled"
InflateBlocks(z, i, out) ==
    IF Remaining(z, i) < 1 THEN [out |-> out, status |-> "Truncated"]
    ELSE IF BlockType(z, i) = 3 THEN [out |-> out, status |-> "Corrupt"]
    ELSE IF BlockType(z, i) # 0 THEN [out |-> out, status |-> "NotModelled"]
    ELSE IF Remaining(z, i + 1) < 4 THEN [out |-> out, status |-> "Truncated"]
    ELSE IF BlockLen(z, i) + BlockNLen(z, i) # 65535
    THEN [out |-> out, status |-> "Corrupt"]
    ELSE IF Remaining(z, i + 5) < BlockLen(z, i)
    THEN [out |-> out \o Slice(z, i + 5, Remaining(z, i + 5)), status |-> "Truncated"]
    ELSE Let([j |-> i + 5 + BlockLen(z, i),
              out2 |-> out \o Slice(z, i + 5, BlockLen(z, i)),
              bfinal |-> Bit(z[i + 1], 0)],
             LAMBDA b :
                IF b.bfinal = 0 THEN InflateBlocks(z, b.j, b.out2)
                ELSE IF Remaining(z, b.j) < 4
                THEN [out |-> b.out2, status |-> "Truncated"]
                ELSE IF Slice(z, b.j, 4) = Adler32Bytes(b.out2)
                THEN [out |-> b.out2, status |-> "End"]
                ELSE [out |-> b.out2, status |-> "Corrupt"])

\* the decompressed bytes of the zlib stream and how the stream ends
Inflate(zs) ==
    Let(zs, LAMBDA z :
        IF Len(z) < 2 THEN [out |-> <<>>, status |-> "Truncated"]
        ELSE IF ~ZlibHeaderOk(z[1], z[2]) THEN [out |-> <<>>, status |-> "Corrupt"]
        ELSE InflateBlocks(z, 2, <<>>))

---------------------------------------------------------------------------
\* DCX container header (struct Metadata).

\* size_of::<Metadata>()
MetadataSize == 76

DCX_MAGIC == <<68, 67, 88, 0>>
DCS_MAGIC == <<68, 67, 83, 0>>
DCP_MAGIC == <<68, 67, 80, 0>>
DFLT == <<68, 70, 76, 84>>
KRAK == <<75, 82, 65, 75>>
EDGE == <<69, 68, 71, 69>>

\* the fields of Metadata the code looks at, at their offsets in the header
Metadata(h) ==
    [dcx_magic |-> Slice(h, 0, 4),
     dcs_magic |-> Slice(h, 24, 4),
     dcp_magic |-> Slice(h, 36, 4),
     algorithm |-> Slice(h, 40, 4)]

\* what DcxReader::new does once the header is read and verified
DcxReader_dispatch(header) ==
    IF header.dcx_magic # DCX_MAGIC THEN Panic("assert_eq dcx_magic")
    ELSE IF header.dcp_magic # DCP_MAGIC THEN Panic("assert_eq dcp_magic")
    ELSE IF header.dcs_magic # DCS_MAGIC THEN Panic("assert_eq dcs_magic")
    ELSE IF header.algorithm = DFLT THEN NoErr
    ELSE IF header.algorithm = KRAK THEN Panic("not implemented: Oodle Kraken")
    ELSE IF header.algorithm = EDGE THEN Panic("not implemented: Edge?")
    ELSE Panic("not implemented")

\* DcxReader::new on a reader that can still deliver the bytes of `bytes`
\* (for an entry: the Take view).  aligned: whether header_buffer, a
\* [u8; 76] local with alignment 1, lies at an address that is a multiple
\* of align_of::<Metadata>() = 4 (unk3 is [u32; 6]); LayoutVerified::new
\* returns None when it does not, and the unwrap aborts.  Where the buffer
\* lies is the build's choice, so callers draw `aligned` from BOOLEAN.
\* Result: err, and read = the number of bytes taken from the reader.
DcxReader_new(bytes, aligned) ==
    Let(bytes, LAMBDA view :
        IF Len(view) < MetadataSize THEN [err |-> Eof, read |-> Len(view)]
        ELSE IF ~aligned
        THEN [err |-> Panic("unwrap on None"), read |-> MetadataSize]
        ELSE [err |-> DcxReader_dispatch(Metadata(view)), read |-> MetadataSize])

---------------------------------------------------------------------------
\* BND4 archive parsing.

BND4_MAGIC == <<66, 78, 68, 52>>

\* the flag bit-order correction of read_archive_info
FormatBits(byte, is_flags_le) ==
    IF ~is_flags_le THEN reverse_bits(byte) ELSE byte

\* an entry flag byte taken as stored, whatever the header says
EntryFlagBits_uncorrected(byte, is_flags_little_endian) == byte

\* the flag bit-order correction of read_entry_info
EntryFlagBits(byte, is_flags_little_endian) ==
    IF ~is_flags_little_endian THEN reverse_bits(byte) ELSE byte

NoArchiveInfo ==
    [file_count |-> 0, header_size |-> 0, version |-> <<>>, file_header_size |-> 0,
     file_header_end |-> 0, unicode |-> FALSE, format |-> 0, extended |-> FALSE,
     name_buckets_offset |-> 0]

\* Option<T>: None, or Some(v) as <<v>>
None == <<>>
Some(v) == <<v>>

\* a read whose value is wrapped in Some
SomeOf(read) == Let(read, LAMBDA r : IF IsOk(r) THEN [r EXCEPT !.val = Some(r.val)]
                                      ELSE [r EXCEPT !.val = None])

\* a field that is not in the byte stream: None, and the cursor stays
Absent(p) == [err |-> NoErr, val |-> None, pos |-> p]

\* the flag byte of the archive header, corrected and checked
read_format(s, p, is_flags_le) ==
    IF p >= Len(s) THEN [err |-> Eof, val |-> 0, pos |-> p]
    ELSE IF Bnd4Flags_from_bits_ok(FormatBits(s[p + 1], is_flags_le))
    THEN [err |-> NoErr, val |-> FormatBits(s[p + 1], is_flags_le), pos |-> p + 1]
    ELSE [err |-> invalid_data("Invalid BND4 archive flags"), val |-> 0, pos |-> p + 1]

\* read_archive_info::<Order>: [err, val: Bnd4ArchiveInfo, pos]
read_archive_info(s, p, big, is_flags_le) ==
    LET file_count == read_u32(s, p, big)
        header_size == read_u64(s, p + 4, big)
        version == read_exact(s, p + 12, 8)
        file_header_size == read_u64(s, p + 20, big)
        file_header_end == read_u64(s, p + 28, big)
        unicode == read_bool(s, p + 36)
        format == read_format(s, p + 37, is_flags_le)
        extended == read_bool(s, p + 38)
        zero == expect_u8(s, p + 39, 0)
        unk == read_u32(s, p + 40, big)
        name_buckets_offset == read_u64(s, p + 44, big)
    IN Let(FirstErr(<<file_count.err, header_size.err, version.err,
                      file_header_size.err, file_header_end.err, unicode.err,
                      format.err, extended.err, zero.err, unk.err,
                      name_buckets_offset.err>>),
           LAMBDA e :
              IF e.kind # "Ok"
              THEN [err |-> e, val |-> NoArchiveInfo, pos |-> p]
              ELSE [err |-> NoErr,
                    val |-> [file_count |-> file_count.val,
                             header_size |-> header_size.val,
                             version |-> version.val,
                             file_header_size |-> file_header_size.val,
                             file_header_end |-> file_header_end.val,
                             unicode |-> unicode.val,
                             format |-> format.val,
                             extended |-> extended.val,
                             name_buckets_offset |-> name_buckets_offset.val],
                    pos |-> name_buckets_offset.pos])

NoFileInfo ==
    [flags |-> 0, size |-> 0, data_offset |-> 0, decompressed_size |-> None,
     id |-> None, name_offset |-> None]

\* the flag byte of an entry record, corrected and checked
read_entry_flags(s, p, is_flags_little_endian) ==
    IF p >= Len(s) THEN [err |-> Eof, val |-> 0, pos |-> p]
    ELSE IF Bnd4EntryFlags_from_bits_ok(EntryFlagBits(s[p + 1], is_flags_little_endian))
    THEN [err |-> NoErr, val |-> EntryFlagBits(s[p + 1], is_flags_little_endian),
          pos |-> p + 1]
    ELSE [err |-> invalid_data("Invalid BND4 entry flags"), val |-> 0, pos |-> p + 1]

\* the optional and variable-width fields of an entry record, each read
\* at cursor p
read_decompressed_size(s, p, big, format) ==
    IF Contains(format, SUPPORTS_COMPRESSION) THEN SomeOf(read_u64(s, p, big))
    ELSE Absent(p)

\* a data offset read as 4 bytes whatever the format says
read_data_offset_u32(s, p, big, format) == read_u32(s, p, big)

read_data_offset(s, p, big, format) ==
    IF has_long_offsets(format) THEN read_u64(s, p, big) ELSE read_u32(s, p, big)

read_id(s, p, big, format) ==
    IF supports_ids(format) THEN SomeOf(read_i32(s, p, big)) ELSE Absent(p)

read_name_offset(s, p, big, format) ==
    IF supports_filenames(format) THEN SomeOf(read_u32(s, p, big)) ELSE Absent(p)

\* read_entry_info::<Order>: [err, val: Bnd4FileInfo, pos]
read_entry_info(s, p, big, format, is_flags_little_endian) ==
    LET flags == read_entry_flags(s, p, is_flags_little_endian)
        z1 == expect_u8(s, p + 1, 0)
        z2 == expect_u8(s, p + 2, 0)
        z3 == expect_u8(s, p + 3, 0)
        minus1 == expect_i32(s, p + 4, big, -1)
        size == read_u64(s, p + 8, big)
    IN Let(read_decompressed_size(s, p + 16, big, format), LAMBDA decompressed_size :
       Let(read_data_offset(s, decompressed_size.pos, big, format), LAMBDA data_offset :
       Let(read_id(s, data_offset.pos, big, format), LAMBDA id :
       Let(read_name_offset(s, id.pos, big, format), LAMBDA name_offset :
       Let(FirstErr(<<flags.err, z1.err, z2.err, z3.err, minus1.err, size.err,
                      decompressed_size.err, data_offset.err, id.err,
                      name_offset.err>>),
           LAMBDA e :
              IF e.kind # "Ok"
              THEN [err |-> e, val |-> NoFileInfo, pos |-> p]
              ELSE [err |-> NoErr,
                    val |-> [flags |-> flags.val,
                             size |-> size.val,
                             data_offset |-> data_offset.val,
                             decompressed_size |-> decompressed_size.val,
                             id |-> id.val,
                             name_offset |-> name_offset.val],
                    pos |-> name_offset.pos])))))

RECURSIVE read_entries(_, _, _, _, _, _, _)
\* the loop of new_from_header: `left` more records after `acc`
read_entries(s, p, big, format, is_flags_little_endian, left, acc) ==
    IF left = 0 THEN [err |-> NoErr, val |-> acc, pos |-> p]
    ELSE Let(read_entry_info(s, p, big, format, is_flags_little_endian),
             LAMBDA entry_info :
                IF ~IsOk(entry_info)
                THEN [err |-> entry_info.err, val |-> <<>>, pos |-> p]
                ELSE read_entries(s, entry_info.pos, big, format,
                                  is_flags_little_endian, left - 1,
                                  Append(acc, entry_info.val)))

\* new_from_header::<O>: [err, info, entries, pos]
new_from_header(s, p, big, is_flags_little_endian) ==
    Let(read_archive_info(s, p, big, is_flags_little_endian), LAMBDA info :
        IF ~IsOk(info)
        THEN [err |-> info.err, info |-> NoArchiveInfo, entries |-> <<>>, pos |-> p]
        ELSE Let(read_entries(s, info.pos, big, info.val.format,
                              is_flags_little_endian, info.val.file_count, <<>>),
                 LAMBDA table :
                    IF ~IsOk(table)
                    THEN [err |-> table.err, info |-> NoArchiveInfo, entries |-> <<>>,
                          pos |-> table.pos]
                    ELSE [err |-> NoErr, info |-> info.val, entries |-> table.val,
                          pos |-> table.pos]))

\* Bnd4Archive::new: [err, info, entries, is_big_endian, pos]
Bnd4Archive_new(s) ==
    LET magic == expect(s, 0, BND4_MAGIC)
        unk04 == read_bool(s, 4)
        unk05 == read_bool(s, 5)
        z1 == expect_u8(s, 6, 0)
        z2 == expect_u8(s, 7, 0)
        z3 == expect_u8(s, 8, 0)
        big == read_bool(s, 9)
        flags_le == read_bool(s, 10)
        skipped == read_u8(s, 11)
    IN Let(FirstErr(<<magic.err, unk04.err, unk05.err, z1.err, z2.err, z3.err,
                      big.err, flags_le.err, skipped.err>>),
           LAMBDA e :
              IF e.kind # "Ok"
              THEN [err |-> e, info |-> NoArchiveInfo, entries |-> <<>>,
                    is_big_endian |-> FALSE, pos |-> 0]
              ELSE Let(new_from_header(s, 12, big.val, flags_le.val), LAMBDA h :
                       IF ~IsOk(h)
                       THEN [err |-> h.err, info |-> NoArchiveInfo, entries |-> <<>>,
                             is_big_endian |-> FALSE, pos |-> h.pos]
                       ELSE [err |-> NoErr, info |-> h.info, entries |-> h.entries,
                             is_big_endian |-> big.val, pos |-> h.pos]))

---------------------------------------------------------------------------
\* Input streams.  A description d says what to write; Build(d) writes it
\* in the on-disk layout, and the operations read it back from the bytes.
\*
\* d.kind = "bnd4": an archive.  d.files is a sequence of
\*   [flags, len, dcx]: the logical entry flags, the payload length and how
\*   the payload is stored ("raw", or a container of the named variant).
\*   d.layout: "fwd" (data in table order), "rev" (data in reverse table
\*   order), "cutname" (the stream ends before the last name's terminator),
\*   "cuttable" (the stream ends one byte before the end of the table).
\* d.kind = "dcx": a container of variant d.variant around d.len bytes.

BoolByte(b) == IF b THEN 1 ELSE 0

\* the on-disk byte of a logical flag set
FlagByte(logical, flags_le) == IF flags_le THEN logical ELSE reverse_bits(logical)

\* the payload of entry i (1-based; 0 for a bare container), distinct per entry
Payload(i, k) == [j \in 1..k |-> 16 * (i + 1) + j]

\* the name of entry i: a letter and a half-width katakana (U+FF71)
NameOf(i) == <<96 + i, 65393>>

\* the id of entry i
IdOf(i) == -i

\* the bytes of a name: UTF-16 in the archive's byte order and a (0, 0)
\* pair, or Shift_JIS and a 0 byte
EncodeName(name, unicode, big, terminated) ==
    IF unicode
    THEN Concat([k \in 1..Len(name) |->
                    IF big THEN <<name[k] \div 256, name[k] % 256>>
                    ELSE <<name[k] % 256, name[k] \div 256>>])
         \o (IF terminated THEN <<0, 0>> ELSE <<>>)
    ELSE [k \in 1..Len(name) |->
             IF name[k] < 128 THEN name[k] ELSE 161 + (name[k] - 65377)]
         \o (IF terminated THEN <<0>> ELSE <<>>)

\* one stored deflate block
StoredBlock(data, final) ==
    <<BoolByte(final), Len(data) % 256, Len(data) \div 256,
      (65535 - Len(data)) % 256, (65535 - Len(data)) \div 256>> \o data

\* a zlib stream of one stored block (two when the data has 2 bytes or more)
Deflate(plain) ==
    <<120, 1>>
    \o (IF Len(plain) >= 2
        THEN StoredBlock(SubSeq(plain, 1, 1), FALSE)
             \o StoredBlock(SubSeq(plain, 2, Len(plain)), TRUE)
        ELSE StoredBlock(plain, TRUE))
    \o Adler32Bytes(plain)

DcxVariants ==
    {"DFLT", "KRAK", "EDGE", "ZSTD", "badDCX", "badDCP", "badDCS", "short",
     "truncated", "badsum"}

\* the compressed body of a container of the given variant
DcxBody(variant, z) ==
    IF variant = "truncated" THEN SubSeq(z, 1, Len(z) - 5)
    ELSE IF variant = "badsum" THEN [z EXCEPT ![Len(z)] = (z[Len(z)] + 1) % 256]
    ELSE z

\* the header of a container of the given variant
DcxHeader(variant, compressed_size, size) ==
    (IF variant = "badDCX" THEN <<68, 67, 88, 1>> ELSE DCX_MAGIC)
    \o <<0, 0, 0, 0>>
    \o ToBytes(24, 4, TRUE) \o ToBytes(36, 4, TRUE)
    \o ToBytes(36, 4, TRUE) \o ToBytes(44, 4, TRUE)
    \o (IF variant = "badDCS" THEN <<68, 67, 83, 1>> ELSE DCS_MAGIC)
    \o ToBytes(compressed_size, 4, TRUE) \o ToBytes(size, 4, TRUE)
    \o (IF variant = "badDCP" THEN <<68, 67, 88, 0>> ELSE DCP_MAGIC)
    \o (IF variant = "KRAK" THEN KRAK
        ELSE IF variant = "EDGE" THEN EDGE
        ELSE IF variant = "ZSTD" THEN <<90, 83, 84, 68>>
        ELSE DFLT)
    \o [k \in 1..24 |-> 0]
    \o <<68, 67, 65, 0>> \o ToBytes(8, 4, TRUE)

\* the container of the given variant around plain
DcxContainer(variant, plain) ==
    Let(DcxBody(variant, Deflate(plain)), LAMBDA body :
        IF variant = "short"
        THEN SubSeq(DcxHeader(variant, Len(body), Len(plain)), 1, MetadataSize - 1)
        ELSE DcxHeader(variant, Len(body), Len(plain)) \o body)

\* the stored bytes of entry i
StoredOf(f, i) ==
    IF f.dcx = "raw" THEN Payload(i, f.len) ELSE DcxContainer(f.dcx, Payload(i, f.len))

\* the length of one entry record under the (logical) format byte
BuiltRecordLen(format) ==
    16 + (IF Contains(format, SUPPORTS_COMPRESSION) THEN 8 ELSE 0)
       + (IF has_long_offsets(format) THEN 8 ELSE 4)
       + (IF supports_ids(format) THEN 4 ELSE 0)
       + (IF supports_filenames(format) THEN 4 ELSE 0)

\* the length of the fixed archive header: 12 bytes read by new, 52 by
\* read_archive_info
BuiltHeaderLen == 12 + 52

\* the order the payloads of n entries are laid out in
DataOrder(layout, n) ==
    IF layout = "rev" THEN [k \in 1..n |-> n + 1 - k] ELSE [k \in 1..n |-> k]

\* where things lie in the archive built from d
Layout(d) ==
    Let([n |-> Len(d.files),
         stored |-> [i \in 1..Len(d.files) |-> StoredOf(d.files[i], i)],
         names |-> [i \in 1..Len(d.files) |->
                       IF supports_filenames(d.format)
                       THEN EncodeName(NameOf(i), d.unicode, d.big,
                                       ~(d.layout = "cutname" /\ i = Len(d.files)))
                       ELSE <<>>],
         order |-> DataOrder(d.layout, Len(d.files)),
         dataStart |-> BuiltHeaderLen + Len(d.files) * BuiltRecordLen(d.format)],
        LAMBDA b :
           [n |-> b.n, stored |-> b.stored, names |-> b.names, order |-> b.order,
            dataStart |-> b.dataStart,
            dataOff |-> [i \in 1..b.n |->
                            b.dataStart
                            + SumSeq([k \in 1..b.n |->
                                         IF \E m \in 1..b.n :
                                               b.order[m] = i /\ k < m
                                         THEN Len(b.stored[b.order[k]]) ELSE 0])],
            nameOff |-> [i \in 1..b.n |->
                            b.dataStart
                            + SumSeq([k \in 1..b.n |-> Len(b.stored[k])])
                            + SumSeq([k \in 1..(i - 1) |-> Len(b.names[k])])]])

\* one entry record
BuildRecord(d, L, i) ==
    <<FlagByte(d.files[i].flags, d.flags_le), 0, 0, 0>>
    \o ToBytes(-1, 4, d.big)
    \o ToBytes(Len(L.stored[i]), 8, d.big)
    \o (IF Contains(d.format, SUPPORTS_COMPRESSION)
        THEN ToBytes(d.files[i].len, 8, d.big) ELSE <<>>)
    \o ToBytes(L.dataOff[i], IF has_long_offsets(d.format) THEN 8 ELSE 4, d.big)
    \o (IF supports_ids(d.format) THEN ToBytes(IdOf(i), 4, d.big) ELSE <<>>)
    \o (IF supports_filenames(d.format) THEN ToBytes(L.nameOff[i], 4, d.big) ELSE <<>>)

BuildHeader(d, n, tableEnd) ==
    BND4_MAGIC \o <<0, 0>> \o <<0, 0, 0>>
    \o <<BoolByte(d.big), BoolByte(d.flags_le), 0>>
    \o ToBytes(n, 4, d.big)
    \o ToBytes(BuiltHeaderLen, 8, d.big)
    \o <<48, 55, 68, 55, 82, 54, 0, 0>>
    \o ToBytes(BuiltRecordLen(d.format), 8, d.big)
    \o ToBytes(tableEnd, 8, d.big)
    \o <<BoolByte(d.unicode), FlagByte(d.format, d.flags_le), 0, 0>>
    \o ToBytes(0, 4, d.big)
    \o ToBytes(0, 8, d.big)

BuildArchive(d) ==
    Let(Layout(d), LAMBDA L :
        Let(BuildHeader(d, L.n, L.dataStart)
            \o Concat([i \in 1..L.n |-> BuildRecord(d, L, i)])
            \o Concat([k \in 1..L.n |-> L.stored[L.order[k]]])
            \o Concat(L.names),
            LAMBDA full :
               IF d.layout = "cuttable" THEN SubSeq(full, 1, L.dataStart - 1)
               ELSE full))

Build(d) ==
    IF d.kind = "bnd4" THEN BuildArchive(d)
    ELSE DcxContainer(d.variant, Payload(0, d.len))

\* the logical format bytes archives are built with: no optional field;
\* ids and paths; names, long offsets and compression; every flag; and
\* one byte with an undefined bit (whose bit-reversal has only defined bits)
FormatChoices ==
    {0, SUPPORTS_IDS + SUPPORTS_PATHS,
     SUPPORTS_NAMES + LONG_OFFSETS + SUPPORTS_COMPRESSION,
     Bnd4Flags_all, 128 + SUPPORTS_PATHS}

\* the entries archives are built from: an empty and a longest raw payload,
\* a deflate container, and an entry whose flag byte has an undefined bit
\* (16, whose bit-reversal is HAS_NAME_2)
FileChoices ==
    {[flags |-> UNK, len |-> 0, dcx |-> "raw"],
     [flags |-> UNK + HAS_NAME, len |-> MaxPayload, dcx |-> "raw"],
     [flags |-> COMPRESSED + HAS_ID, len |-> MaxPayload, dcx |-> "DFLT"],
     [flags |-> 16, len |-> 1, dcx |-> "raw"]}

RECURSIVE SeqsUpTo(_, _)
\* the sequences over S of length at most n
SeqsUpTo(S, n) ==
    IF n = 0 THEN {<<>>}
    ELSE SeqsUpTo(S, n - 1)
         \cup {Append(q, x) : q \in {r \in SeqsUpTo(S, n - 1) : Len(r) = n - 1}, x \in S}

\* the header switches archives are built with, as
\* <<is_big_endian, is_flags_little_endian, unicode>>: each pair of
\* (byte order, flag bit order) and of (byte order, name encoding)
Switches ==
    {<<FALSE, TRUE, FALSE>>, <<TRUE, FALSE, TRUE>>,
     <<FALSE, FALSE, TRUE>>, <<TRUE, TRUE, FALSE>>}

ArchiveDescs ==
    {d \in [kind : {"bnd4"}, big : BOOLEAN, flags_le : BOOLEAN, unicode : BOOLEAN,
            format : FormatChoices, files : SeqsUpTo(FileChoices, MaxFiles),
            layout : {"fwd", "rev", "cutname", "cuttable"},
            variant : {"none"}, len : {0}] :
        /\ <<d.big, d.flags_le, d.unicode>> \in Switches
        /\ d.layout = "rev" => Len(d.files) >= 2
        /\ d.layout = "cuttable" => Len(d.files) >= 1
        /\ d.layout = "cutname" => Len(d.files) >= 1 /\ supports_filenames(d.format)}

ContainerDescs ==
    [kind : {"dcx"}, big : {FALSE}, flags_le : {FALSE}, unicode : {FALSE},
     format : {0}, files : {<<>>}, layout : {"fwd"},
     variant : DcxVariants, len : 0..MaxPayload]

---------------------------------------------------------------------------
\* The state machine.

\* no live reader.  prior records, for the reader a file() call makes,
\* what the call found: "none" (no reader before it), "unread", "partial"
\* or "drained" (how far the reader before it had been read)
NoCur ==
    [open |-> FALSE, index |-> 0, name |-> None, kind |-> "None", bounded |-> FALSE,
     limit |-> 0, started |-> FALSE, zbuf |-> <<>>, out |-> <<>>, eof |-> FALSE,
     prior |-> "none"]

\* how far the reader c has been read
Progress(c) ==
    IF ~c.open THEN "none"
    ELSE IF c.eof THEN "drained"
    ELSE IF c.out = <<>> /\ ~c.started THEN "unread"
    ELSE "partial"

NoCall == [op |-> "none", arg |-> 0, err |-> NoErr, ret |-> 0, at |-> ""]

Init ==
    /\ desc \in ArchiveDescs \cup ContainerDescs
    /\ stream = Build(desc)
    /\ pos = 0
    /\ status = "Start"
    /\ archive_info = NoArchiveInfo
    /\ entries = <<>>
    /\ is_big_endian = FALSE
    /\ cur = NoCur
    /\ last = NoCall

\* Bnd4Archive::new(reader), on a stream the caller takes for an archive
New ==
    /\ status = "Start"
    /\ desc.kind = "bnd4"
    /\ \E r \in {Bnd4Archive_new(stream)} :
          /\ status' = IF IsOk(r) THEN "Parsed" ELSE "Failed"
          /\ archive_info' = r.info
          /\ entries' = r.entries
          /\ is_big_endian' = r.is_big_endian
          /\ pos' = r.pos
          /\ last' = [op |-> "new", arg |-> 0, err |-> r.err, ret |-> 0, at |-> ""]
    /\ UNCHANGED <<desc, stream, cur>>

\* Bnd4Archive::len
len == archive_info.file_count

\* the bytes a Take of `limit` over the stream at p can still deliver
TakeView(s, p, limit) == Slice(s, p, Min(limit, Remaining(s, p)))

\* the name lookup of file(): [err, val: Option<String>, pos]
file_name(s, p, entry, is_unicode, is_big_endian_str) ==
    IF entry.name_offset = None THEN Absent(p)
    ELSE SomeOf(at(s, p, entry.name_offset[1],
                   [is_unicode |-> is_unicode, is_big_endian_str |-> is_big_endian_str]))

\* no seek before the data is read: the cursor stays at p
seek_skipped(p, offset) == p

\* self.reader.seek(SeekFrom::Start(offset)) with the cursor at p
seek_start(p, offset) == offset

\* a Take view one byte longer than the entry
take_limit_plus_one(entry) == entry.size + 1

\* the limit of the Take view file() makes over the entry's data
take_limit(entry) == entry.size

\* a Bnd4File just opened over a Take of `limit`
Opened(index, name, kind, limit) ==
    [open |-> TRUE, index |-> index, name |-> name, kind |-> kind, bounded |-> TRUE,
     limit |-> limit, started |-> FALSE, zbuf |-> <<>>, out |-> <<>>, eof |-> FALSE,
     prior |-> "none"]

\* the part of file() after the name lookup left the cursor at p
file_data(s, p, entry, index, name, aligned) ==
    Let(seek_start(p, entry.data_offset), LAMBDA start :
        IF ~Contains(entry.flags, COMPRESSED)
        THEN [err |-> NoErr, at |-> "ok", pos |-> start,
              cur |-> Opened(index, name, "Uncompressed", take_limit(entry))]
        ELSE Let(DcxReader_new(TakeView(s, start, take_limit(entry)), aligned),
                 LAMBDA dcx :
                    IF ~IsOk(dcx)
                    THEN [err |-> dcx.err, at |-> "dcx", pos |-> start + dcx.read,
                          cur |-> NoCur]
                    ELSE [err |-> NoErr, at |-> "ok", pos |-> start + dcx.read,
                          cur |-> Opened(index, name, "Compressed",
                                         take_limit(entry) - dcx.read)]))

\* Bnd4Archive::file(index): the outcome as
\* [err, at, pos, cur]; at names the step that ended the call
Bnd4Archive_file(s, p, info, ents, big, index, aligned) ==
    IF index >= info.file_count
    THEN [err |-> Panic("explicit panic"), at |-> "index", pos |-> p, cur |-> NoCur]
    ELSE Let(file_name(s, p, ents[index + 1], info.unicode, big), LAMBDA name :
             IF ~IsOk(name)
             THEN [err |-> name.err, at |-> "name", pos |-> name.pos, cur |-> NoCur]
             ELSE file_data(s, name.pos, ents[index + 1], index, name.val, aligned))

\* the indices file() is called with: every entry, and len() or more
Indices == 0..MaxFiles

\* where header_buffer may lie when file(index) gets as far as
\* DcxReader::new; the choice has no effect on any other call
Alignments(index) ==
    IF index < Len(entries) /\ Contains(entries[index + 1].flags, COMPRESSED)
    THEN BOOLEAN ELSE {TRUE}

File(index, aligned) ==
    /\ status = "Parsed"
    /\ \E r \in {Bnd4Archive_file(stream, pos, archive_info, entries, is_big_endian,
                                  index, aligned)} :
          /\ status' = IF r.err.kind = "Panic" THEN "Aborted" ELSE "Parsed"
          /\ pos' = r.pos
          /\ cur' = IF r.cur.open THEN [r.cur EXCEPT !.prior = Progress(cur)] ELSE r.cur
          /\ last' = [op |-> "file", arg |-> index, err |-> r.err, ret |-> 0, at |-> r.at]
    /\ UNCHANGED <<desc, stream, archive_info, entries, is_big_endian>>

\* DcxReader::new(reader) on the whole stream, as the extraction driver
\* does with a file it takes for a container
DcxOpen(aligned) ==
    /\ status = "Start"
    /\ desc.kind = "dcx"
    /\ \E r \in {DcxReader_new(stream, aligned)} :
          /\ status' = IF r.err.kind = "Panic" THEN "Aborted"
                       ELSE IF IsOk(r) THEN "Container" ELSE "Failed"
          /\ pos' = r.read
          /\ cur' = IF IsOk(r)
                    THEN [NoCur EXCEPT !.open = TRUE, !.kind = "Compressed"]
                    ELSE NoCur
          /\ last' = [op |-> "dcx_new", arg |-> 0, err |-> r.err, ret |-> 0, at |-> ""]
    /\ UNCHANGED <<desc, stream, archive_info, entries, is_big_endian>>

\* what the reader under c can deliver at p: the Take view, or the rest
Underlying(s, p, c) ==
    IF c.bounded THEN TakeView(s, p, c.limit) ELSE Slice(s, p, Remaining(s, p))

\* io::Take::read / Cursor::read with a buffer of n bytes:
\* [err, ret, bytes, pos, cur]
Uncompressed_read(s, p, c, n) ==
    Let(SubSeq(Underlying(s, p, c), 1, Min(n, Len(Underlying(s, p, c)))),
        LAMBDA bytes :
           [err |-> NoErr, ret |-> Len(bytes), bytes |-> bytes, pos |-> p + Len(bytes),
            cur |-> [c EXCEPT !.limit = IF c.bounded THEN c.limit - Len(bytes)
                                        ELSE c.limit]])

\* the decoder's BufReader filling itself on the first read: it takes all
\* its reader can deliver (its 32 KiB hold any stream of the model)
Fill(s, p, c) ==
    IF c.started THEN [c |-> c, pos |-> p]
    ELSE Let(Underlying(s, p, c), LAMBDA view :
             [c |-> [c EXCEPT !.started = TRUE, !.zbuf = view,
                              !.limit = IF c.bounded THEN c.limit - Len(view)
                                        ELSE c.limit],
              pos |-> p + Len(view)])

\* ZlibDecoder::read with a buffer of n bytes: the decoder hands out the
\* decompressed bytes, n at a time.  When the input ran out it reports end
\* of stream; a corrupt stream is an InvalidInput error at the read that
\* reaches the corruption.
Compressed_read(s, p, c, n) ==
    Let(Fill(s, p, c), LAMBDA f :
    Let(Inflate(f.c.zbuf), LAMBDA dec :
    Let(SubSeq(dec.out, Len(c.out) + 1, Len(dec.out)), LAMBDA rest :
        IF dec.status = "Corrupt" /\ n > Len(rest)
        THEN [err |-> [kind |-> "InvalidInput", msg |-> "corrupt deflate stream"],
              ret |-> 0, bytes |-> <<>>, pos |-> f.pos, cur |-> f.c]
        ELSE [err |-> NoErr, ret |-> Min(n, Len(rest)),
              bytes |-> SubSeq(rest, 1, Min(n, Len(rest))),
              pos |-> f.pos, cur |-> f.c])))

\* Bnd4File::read / DcxReader::read
Bnd4File_read(s, p, c, n) ==
    IF c.kind = "Compressed" THEN Compressed_read(s, p, c, n)
    ELSE Uncompressed_read(s, p, c, n)

Read(n) ==
    /\ status \in {"Parsed", "Container"}
    /\ cur.open
    /\ \E r \in {Bnd4File_read(stream, pos, cur, n)} :
          /\ pos' = r.pos
          /\ cur' = [r.cur EXCEPT !.out = @ \o r.bytes,
                                  !.eof = IsOk(r) /\ r.ret = 0]
          /\ last' = [op |-> "read", arg |-> n, err |-> r.err, ret |-> r.ret, at |-> ""]
    /\ UNCHANGED <<desc, stream, status, archive_info, entries, is_big_endian>>

Next ==
    \/ New
    \/ \E index \in Indices : \E aligned \in Alignments(index) : File(index, aligned)
    \/ \E aligned \in BOOLEAN : DcxOpen(aligned)
    \/ \E n \in 1..MaxBuf : Read(n)

Spec == Init /\ [][Next]_vars

---------------------------------------------------------------------------
\* Properties of file() past the end of the table and of DcxReader::new.

\* a call that came back with an error value the caller can handle
Recoverable(call) ==
    /\ call.err.kind \notin {"Ok", "Panic"}
    /\ status # "Aborted"

\* C1: on an opened archive, file(index) with index >= len() comes back
\* with an error value (IndexOutOfRange); the process is not aborted.
C1_IndexOutOfRangeIsAnError ==
    (last.op = "file" /\ last.arg >= len) => Recoverable(last)

\* the stream holds a full container header whose three magics match
MagicsMatch ==
    /\ Len(stream) >= MetadataSize
    /\ Metadata(stream).dcx_magic = DCX_MAGIC
    /\ Metadata(stream).dcp_magic = DCP_MAGIC
    /\ Metadata(stream).dcs_magic = DCS_MAGIC

\* DcxReader::new got as far as looking at the header it read
HeaderInspected == last.op = "dcx_new" /\ last.err.msg # "unwrap on None"

\* C2: DcxReader::new on a header with valid magics and an algorithm code
\* other than DFLT comes back with an error value (UnsupportedAlgorithm):
\* no abort, and no reader.
C2_UnsupportedAlgorithmIsAnError ==
    (HeaderInspected /\ MagicsMatch /\ Metadata(stream).algorithm # DFLT)
        => (Recoverable(last) /\ ~cur.open)

\* C3: DcxReader::new on a full-length header one of whose magics DCX\0,
\* DCP\0, DCS\0 does not match comes back with a FormatError value (an
\* io::Error of kind InvalidData), not an abort.
C3_MagicMismatchIsAnError ==
    (HeaderInspected /\ Len(stream) >= MetadataSize /\ ~MagicsMatch)
        => (Recoverable(last) /\ last.err.kind = "InvalidData")

---------------------------------------------------------------------------
\* Properties of the streams file() returns.

\* the archive was built whole, with defined flag bytes only, every entry
\* flagged COMPRESSED exactly when its data is a deflate container, and
\* compressed entries only under SUPPORTS_COMPRESSION
ValidArchive ==
    /\ desc.kind = "bnd4"
    /\ desc.layout \in {"fwd", "rev"}
    /\ OnlyBits(desc.format, Bnd4Flags_all)
    /\ \A i \in 1..Len(desc.files) :
          /\ OnlyBits(desc.files[i].flags, Bnd4EntryFlags_all)
          /\ desc.files[i].dcx \in {"raw", "DFLT"}
          /\ Contains(desc.files[i].flags, COMPRESSED) <=> desc.files[i].dcx = "DFLT"
          /\ Contains(desc.files[i].flags, COMPRESSED)
                => Contains(desc.format, SUPPORTS_COMPRESSION)

\* the length entry i declares for its content
DeclaredLen(i) ==
    IF entries[i].decompressed_size # None THEN entries[i].decompressed_size[1]
    ELSE entries[i].size

\* a reader of a parsed archive that was read until a read returned 0
Drained == status = "Parsed" /\ cur.open /\ cur.eof

\* C4: on a valid archive, file(i) succeeds for every i < len(), and the
\* reader it returns, read until a read returns 0, delivers as many bytes
\* as the entry declares: decompressed_size when the archive has
\* SUPPORTS_COMPRESSION, size otherwise.
C4_EveryEntryOpensAndHasItsDeclaredLength ==
    ValidArchive =>
        /\ status # "Failed"
        /\ (last.op = "file" /\ last.arg < len)
              => (IsOk(last) /\ cur.open /\ cur.index = last.arg)
        /\ Drained => Len(cur.out) = DeclaredLen(cur.index + 1)

\* What remains of C4 when header_buffer happens to lie on a 4-byte
\* boundary: every file(i) that does not stop at the unwrap succeeds and
\* delivers the declared length.
C4_HoldsOnAnAlignedBuffer ==
    ValidArchive =>
        /\ status # "Failed"
        /\ (last.op = "file" /\ last.arg < len /\ last.err.msg # "unwrap on None")
              => (IsOk(last) /\ cur.open /\ cur.index = last.arg)
        /\ Drained => Len(cur.out) = DeclaredLen(cur.index + 1)

\* the bytes the archive stores for entry i: [data_offset, data_offset + size)
StoredBytes(i) == Slice(stream, entries[i].data_offset, entries[i].size)

\* C5: whatever file() and read calls came before (entries read fully,
\* partly or not at all, with or without names), the reader file(B)
\* returns carries B's name and reads exactly B's stored bytes, the bytes
\* at [data_offset(B), data_offset(B) + size(B)): directly for an
\* uncompressed entry, as the container header and the decoder's input
\* for a compressed one.  file(B) on an uncompressed entry whose name is in
\* the stream always returns a reader (whether file(B) returns on a
\* compressed entry is what C4 is about).
C5_EntryReadsDoNotDependOnTheCursor ==
    /\ (status = "Parsed" /\ cur.open) =>
          /\ StoredBytes(cur.index + 1)
                = StoredOf(desc.files[cur.index + 1], cur.index + 1)
          /\ cur.name = IF supports_filenames(archive_info.format)
                        THEN Some(NameOf(cur.index + 1)) ELSE None
          /\ cur.kind = "Uncompressed" =>
                /\ Len(cur.out) <= entries[cur.index + 1].size
                /\ cur.out = SubSeq(StoredBytes(cur.index + 1), 1, Len(cur.out))
                /\ cur.eof => cur.out = StoredBytes(cur.index + 1)
          /\ (cur.kind = "Compressed" /\ cur.started) =>
                SubSeq(StoredBytes(cur.index + 1), 1, MetadataSize) \o cur.zbuf
                   = StoredBytes(cur.index + 1)
    /\ (/\ status \in {"Parsed", "Aborted"}
        /\ last.op = "file"
        /\ last.arg < len
        /\ ~Contains(entries[last.arg + 1].flags, COMPRESSED)
        /\ (desc.layout = "cutname" => last.arg + 1 < len)) =>
          (IsOk(last) /\ cur.open /\ cur.index = last.arg)

\* an entry with a name was read to its end, then an entry whose data lies
\* before it in the stream was opened and read to its end
C5_Witness ==
    /\ Drained
    /\ cur.prior = "drained"
    /\ desc.layout = "rev"
    /\ cur.index = 1
    /\ cur.name = Some(NameOf(2))
    /\ Len(cur.out) = MaxPayload

\* where the data of the entry under reader c ends
DataEnd(c) == entries[c.index + 1].data_offset + entries[c.index + 1].size

C6_Step ==
    /\ (status' = "Parsed" /\ cur'.open) => pos' <= DataEnd(cur')
    /\ (status = "Parsed" /\ cur.open /\ pos = DataEnd(cur) /\ last'.op = "read") =>
          /\ pos' = pos
          /\ cur.kind = "Uncompressed" => (last'.ret = 0 /\ cur'.out = cur.out)

\* C6: the view file() returns is bounded to size bytes from data_offset:
\* no read on an entry moves the stream cursor past data_offset + size,
\* and once the cursor is there every further read of the view returns 0
\* and leaves the cursor alone.
C6_ViewIsBoundedToSize == [][C6_Step]_vars

\* an uncompressed entry was read to its end, a further read returned 0,
\* and the stream goes on after the entry's data
C6_Witness ==
    /\ Drained
    /\ cur.kind = "Uncompressed"
    /\ last.op = "read" /\ last.ret = 0
    /\ Len(cur.out) = MaxPayload
    /\ pos = DataEnd(cur)
    /\ pos < Len(stream)

---------------------------------------------------------------------------
\* Properties of Bnd4Archive::new.

\* new has just returned
Opening == desc.kind = "bnd4" /\ last.op = "new"

\* the archive that differs from the one in the stream in the bit order of
\* its flag bytes only: the header's flags-little-endian byte is the other
\* one, and the format byte and every entry flag byte are bit-reversed
OtherBitOrder == Build([desc EXCEPT !.flags_le = ~@])

\* C7: an archive with flags-little-endian = true that stores its flag
\* bytes directly and the otherwise identical archive with
\* flags-little-endian = false and every flag byte (the format byte and
\* each entry's) bit-reversed open to the same result: same success or
\* error, same ArchiveInfo, same entries; under either integer byte order.
C7_FlagBitOrderIsCorrected ==
    Opening =>
        Let(Bnd4Archive_new(OtherBitOrder), LAMBDA other :
            /\ OtherBitOrder # stream
            /\ other.err = last.err
            /\ other.info = archive_info
            /\ other.entries = entries
            /\ other.is_big_endian = is_big_endian
            /\ other.pos = pos)

\* an archive with bit-reversed flag bytes and big-endian integers opened
\* to the format {SUPPORTS_IDS, SUPPORTS_PATHS} and an entry with flags
\* {UNK, HAS_NAME}
C7_Witness ==
    /\ Opening /\ status = "Parsed"
    /\ ~desc.flags_le /\ is_big_endian
    /\ stream[12 + 38] = reverse_bits(SUPPORTS_IDS + SUPPORTS_PATHS)
    /\ archive_info.format = SUPPORTS_IDS + SUPPORTS_PATHS
    /\ \E i \in 1..Len(entries) : entries[i].flags = UNK + HAS_NAME

\* the bytes of one entry record under the archive's format flags
RecordBytes(format) ==
    16 + (IF Contains(format, SUPPORTS_COMPRESSION) THEN 8 ELSE 0)
       + (IF Contains(format, LONG_OFFSETS) THEN 8 ELSE 4)
       + (IF Contains(format, SUPPORTS_IDS) THEN 4 ELSE 0)
       + (IF Contains(format, SUPPORTS_PATHS) \/ Contains(format, SUPPORTS_NAMES)
          THEN 4 ELSE 0)

\* where the header ends and the entry table starts
TableStart == 12 + 52

\* C8: the layout of an entry record follows from the archive's format
\* flags alone: each record parse consumes 16 bytes, plus 8 iff
\* SUPPORTS_COMPRESSION, plus 8 if LONG_OFFSETS else 4, plus 4 iff
\* SUPPORTS_IDS, plus 4 iff SUPPORTS_PATHS or SUPPORTS_NAMES; the fields
\* lie in that order (each comes back with the value written for it); and
\* decompressed_size, id and name_offset are present iff the archive flag
\* is set, whatever the entry's own flag byte.
C8_RecordLayoutFollowsFormat ==
    (Opening /\ status = "Parsed") =>
        Let(Layout(desc), LAMBDA L :
            /\ Len(entries) = Len(desc.files)
            /\ pos = TableStart + Len(entries) * RecordBytes(archive_info.format)
            /\ \A i \in 1..Len(entries) :
                  LET e == entries[i]
                      from == TableStart + (i - 1) * RecordBytes(archive_info.format)
                  IN /\ read_entry_info(stream, from, is_big_endian,
                                        archive_info.format, desc.flags_le).pos
                           = from + RecordBytes(archive_info.format)
                     /\ e.flags = desc.files[i].flags
                     /\ e.size = Len(L.stored[i])
                     /\ e.decompressed_size
                           = IF Contains(archive_info.format, SUPPORTS_COMPRESSION)
                             THEN Some(desc.files[i].len) ELSE None
                     /\ e.data_offset = L.dataOff[i]
                     /\ e.id = IF Contains(archive_info.format, SUPPORTS_IDS)
                               THEN Some(IdOf(i)) ELSE None
                     /\ e.name_offset
                           = IF \/ Contains(archive_info.format, SUPPORTS_PATHS)
                                \/ Contains(archive_info.format, SUPPORTS_NAMES)
                             THEN Some(L.nameOff[i]) ELSE None)

\* a table of the longest records was read whose entries have neither
\* HAS_ID nor COMPRESSED set, and the optional fields are there
C8_Witness ==
    /\ Opening /\ status = "Parsed"
    /\ archive_info.format = Bnd4Flags_all
    /\ Len(entries) = MaxFiles
    /\ pos = TableStart + MaxFiles * 40
    /\ \A i \in 1..Len(entries) :
          /\ ~Contains(entries[i].flags, HAS_ID)
          /\ ~Contains(entries[i].flags, COMPRESSED)
          /\ entries[i].id # None
          /\ entries[i].decompressed_size # None

\* the archive's format byte, or the flag byte of one of its entries, has
\* a bit that is not a defined flag, once the bit order is corrected
UndefinedFlagBit ==
    \/ ~OnlyBits(desc.format, Bnd4Flags_all)
    \/ \E i \in 1..Len(desc.files) : ~OnlyBits(desc.files[i].flags, Bnd4EntryFlags_all)

FlagErrors == {"Invalid BND4 archive flags", "Invalid BND4 entry flags"}

\* C9: new fails with a FormatError value (an io::Error of kind
\* InvalidData) and yields no archive whenever the format byte or the flag
\* byte of an entry record has, after the bit-order correction, a bit that
\* is not a defined flag; flag bytes with defined bits only never cause
\* the flag errors.
C9_UndefinedFlagBitsFailTheOpen ==
    Opening =>
        /\ UndefinedFlagBit =>
              /\ status = "Failed"
              /\ last.err.kind = "InvalidData"
              /\ archive_info = NoArchiveInfo
              /\ entries = <<>>
              /\ ~cur.open
        /\ last.err.msg \in FlagErrors => UndefinedFlagBit

\* the open failed on the flag byte of the second entry record, which is
\* stored bit-reversed and has only defined bits as stored
C9_Witness ==
    /\ Opening /\ status = "Failed"
    /\ last.err = invalid_data("Invalid BND4 entry flags")
    /\ ~desc.flags_le
    /\ Len(desc.files) = 2
    /\ OnlyBits(desc.files[1].flags, Bnd4EntryFlags_all)
    /\ OnlyBits(reverse_bits(desc.files[2].flags), Bnd4EntryFlags_all)

---------------------------------------------------------------------------
\* Properties of the scoped seek.

\* the name read of entry i, run directly at its offset
NameRead(i) ==
    IF archive_info.unicode
    THEN read_utf16(stream, entries[i].name_offset[1], is_big_endian)
    ELSE read_cstr(stream, entries[i].name_offset[1])

\* the same read, run through `at` with the cursor where it is
ScopedNameRead(i) ==
    at(stream, pos, entries[i].name_offset[1],
       [is_unicode |-> archive_info.unicode, is_big_endian_str |-> is_big_endian])

\* what a file(index) step shows of the `at` it runs for the entry's name:
\* `at` hands on what the consumer returned, Ok or Err, with the cursor
\* where it was; on Err the call ends there with that error
NameStep(index) ==
    \E scoped \in {ScopedNameRead(index + 1)} : \E direct \in {NameRead(index + 1)} :
        /\ scoped.pos = pos
        /\ scoped.err = direct.err
        /\ scoped.val = direct.val
        /\ IsOk(direct) =>
              /\ last'.at # "name"
              /\ cur'.open => cur'.name = Some(direct.val)
        /\ ~IsOk(direct) =>
              /\ last'.at = "name"
              /\ last'.err = direct.err
              /\ status' = "Parsed"
              /\ ~cur'.open
              /\ pos' = pos
              /\ archive_info' = archive_info
              /\ entries' = entries

C10_Step ==
    (/\ last'.op = "file"
     /\ last'.arg < len
     /\ entries[last'.arg + 1].name_offset # None) => NameStep(last'.arg)

\* C10: at(position, consumer) leaves the cursor where it was before the
\* call whether the consumer returns Ok or Err, and returns the consumer's
\* result; so a file() call that fails decoding the name leaves the stream
\* cursor where it was and ArchiveInfo and the entries unchanged.
C10_ScopedSeekRestoresTheCursor == [][C10_Step]_vars

\* file() failed on a name that runs to the end of the input, with the
\* cursor inside the data region, where an earlier read had left it
C10_Witness ==
    /\ last.op = "file" /\ last.at = "name"
    /\ last.err = Eof
    /\ status = "Parsed"
    /\ pos > TableStart + Len(entries) * RecordBytes(archive_info.format)
    /\ pos < entries[last.arg + 1].name_offset[1]

===========================================================================
